---------------------------- MODULE Spec2Model ----------------------------
(***************************************************************************)
(* CrackAble security scanner: pages/api/extract.js and the rule tables of *)
(* utils/regex-rules.js.                                                   *)
(*                                                                         *)
(* Five specifications share this module:                                 *)
(*   Spec        the request handler and the browser pool under           *)
(*               concurrent requests that arrive at one clock reading,     *)
(*               each from its own address or from the first request's     *)
(*               (one action per run of the handler between two awaits);   *)
(*   FairSpec    Spec with every handler's continuation eventually run;    *)
(*   RateSpec    the same handler with the clock running and the periodic  *)
(*               sweep of the rate-limit table, for a few requests from    *)
(*               two addresses;                                            *)
(*   HarvestSpec one scan: collectScripts with its request and response    *)
(*               callbacks, then the scanner and the response;             *)
(*   ScanSpec    scanForSecurityIssues and the response formatting on      *)
(*               every blob over a small alphabet.                         *)
(* Strings are sequences of one-character strings; "\n" is the newline.    *)
(***************************************************************************)
EXTENDS Integers, Sequences, FiniteSets, TLC

(***************************************************************************)
(* Bounds of the model.                                                    *)
(***************************************************************************)
\* Requests a behaviour of Spec handles; numbered in their order of arrival.
NumReq == 4
\* Requests a behaviour of RateSpec handles.
NumRateReq == 3
\* Lines of a blob of ScanSpec.
MaxLines == 5
\* Characters of the host name of the long line of ScanSpec.
LongHost == 41
\* Clock readings: Date.now() takes the values 0, TickMs, ..., MaxTicks * TickMs.
MaxTicks == 5
TickMs == 30000
\* The pool's ceiling, const MAX_BROWSERS = 8 in the source, scaled down so that
\* NumReq requests exhaust it.
MAX_BROWSERS == 2

(***************************************************************************)
(* Program constants.                                                      *)
(***************************************************************************)
RATE_LIMIT_WINDOW == 60000

Requests == 1..NumReq
RateRequests == 1..NumRateReq
\* Client addresses (x-forwarded-for or the socket's), numbered.
IPs == 1..NumReq
\* Spec: request r comes from its own address or from request 1's.
OwnOrFirst(r) == {1, r}
\* RateSpec: any request comes from either of two addresses.
TwoClients(r) == {1, 2}
\* req.body.url: absent, a string that is no absolute URL, an absolute URL.
Urls == {"missing", "malformed", "valid"}
\* RateSpec: the url is absent or an absolute URL.
RateUrls == {"missing", "valid"}
\* rateLimitMap.has(ip) is false
NoEntry == -1
\* no browser
NoBrowser == 0
\* nothing sent yet
NoResp == [req |-> 0, code |-> 0]
\* res.status(code).json(...) of request r
Resp(r, code) == [req |-> r, code |-> code]

(***************************************************************************)
(* Strings and regular expressions.                                        *)
(***************************************************************************)
NL == "\n"
\* The value `undefined` where a string is expected.
Undefined == <<"undefined">>
\* String(undefined)
UndefinedText == <<"u", "n", "d", "e", "f", "i", "n", "e", "d">>

Lower == {"a", "b", "c", "d", "e", "f", "g", "h", "i", "j", "k", "l", "m", "n", "o", "p", "q", "r", "s", "t", "u", "v", "w", "x", "y", "z"}
Upper == {"A", "B", "C", "D", "E", "F", "G", "H", "I", "J", "K", "L", "M", "N", "O", "P", "Q", "R", "S", "T", "U", "V", "W", "X", "Y", "Z"}
Digits == {"0", "1", "2", "3", "4", "5", "6", "7", "8", "9"}
\* \w and \s
WordChars == Lower \cup Upper \cup Digits \cup {"_"}
Blank == {" ", "\t"}

\* A pattern is a sequence of elements:
\*   [t |-> "q"]    a character class (chars, complemented when neg), repeated
\*                  min to max times, without upper limit when many; greedy
\*   [t |-> "eol"]  $
\*   [t |-> "grp"]  a group of alternatives (sequences of the two above),
\*                  capturing when cap, followed by ? when opt
Q(chars, neg, min, max, many) ==
    [t |-> "q", chars |-> chars, neg |-> neg, min |-> min, max |-> max, many |-> many]
Ch(c) == Q({c}, FALSE, 1, 1, FALSE)
Lit(s) == [i \in 1..Len(s) |-> Ch(s[i])]
OneOf(chars) == Q(chars, FALSE, 1, 1, FALSE)
Plus(chars) == Q(chars, FALSE, 1, 1, TRUE)
PlusNot(chars) == Q(chars, TRUE, 1, 1, TRUE)
Star(chars) == Q(chars, FALSE, 0, 0, TRUE)
Times(chars, n) == Q(chars, FALSE, n, n, FALSE)
Eol == [t |-> "eol"]
Grp(alts, cap, opt) == [t |-> "grp", alts |-> alts, cap |-> cap, opt |-> opt]
\* A RegExp object: its source and its g flag.
RegExp(items) == [items |-> items, global |-> FALSE]

InClass(c, it) == (c \in it.chars) # it.neg
NoMatch == [ok |-> FALSE, index |-> 0, end |-> 0, caps |-> <<>>]

\* The number of characters of the class from pos on, up to the element's limit.
RECURSIVE Run(_, _, _, _)
Run(str, pos, it, n) ==
    IF (it.many \/ n < it.max) /\ pos + n <= Len(str) /\ InClass(str[pos + n], it)
    THEN Run(str, pos, it, n + 1)
    ELSE n

\* The backtracking matcher: the first way, in the engine's order of
\* preference, in which the elements match str from pos; end is the position
\* after the match and caps the captures.
RECURSIVE MatchHere(_, _, _, _)
RECURSIVE TryCounts(_, _, _, _, _, _)
RECURSIVE TryAlts(_, _, _, _, _, _)
MatchHere(items, str, pos, caps) ==
    IF items = <<>>
    THEN [ok |-> TRUE, index |-> 0, end |-> pos, caps |-> caps]
    ELSE LET it == Head(items)
             rest == Tail(items)
         IN  CASE it.t = "q" ->
                    LET n == Run(str, pos, it, 0)
                    IN  IF n < it.min THEN NoMatch
                        ELSE TryCounts(rest, str, pos, caps, n, it.min)
               [] it.t = "eol" ->
                    IF pos = Len(str) + 1 THEN MatchHere(rest, str, pos, caps) ELSE NoMatch
               [] it.t = "grp" -> TryAlts(it, rest, str, pos, caps, 1)
               [] it.t = "close" ->
                    MatchHere(rest, str, pos,
                              IF it.cap THEN Append(caps, SubSeq(str, it.start, pos - 1))
                              ELSE caps)
TryCounts(rest, str, pos, caps, n, min) ==
    LET r == MatchHere(rest, str, pos + n, caps)
    IN  IF r.ok THEN r
        ELSE IF n > min THEN TryCounts(rest, str, pos, caps, n - 1, min)
        ELSE NoMatch
TryAlts(g, rest, str, pos, caps, j) ==
    IF j > Len(g.alts)
    THEN IF g.opt
         THEN MatchHere(rest, str, pos, IF g.cap THEN Append(caps, Undefined) ELSE caps)
         ELSE NoMatch
    ELSE LET r == MatchHere(g.alts[j] \o <<[t |-> "close", cap |-> g.cap, start |-> pos]>>
                                \o rest, str, pos, caps)
         IN  IF r.ok THEN r ELSE TryAlts(g, rest, str, pos, caps, j + 1)

\* RegExp.prototype.exec from position `from`: the leftmost match.
RECURSIVE RegExpExec(_, _, _)
RegExpExec(re, str, from) ==
    IF from > Len(str) + 1 THEN NoMatch
    ELSE LET r == MatchHere(re.items, str, from, <<>>)
         IN  IF r.ok THEN [r EXCEPT !.index = from] ELSE RegExpExec(re, str, from + 1)

\* RegExp.prototype.test
RegExpTest(re, str) == RegExpExec(re, str, 1).ok

\* Every match of a g-flagged pattern, left to right, each search starting
\* where the last match ended (one further on after an empty match).
RECURSIVE MatchAll(_, _, _)
MatchAll(re, str, from) ==
    LET r == RegExpExec(re, str, from)
    IN  IF ~r.ok THEN <<>>
        ELSE <<SubSeq(str, r.index, r.end - 1)>>
                \o MatchAll(re, str, IF r.end = r.index THEN r.end + 1 ELSE r.end)

\* String.prototype.match, `|| []` applied: with the g flag every match; without
\* it the first match followed by its capture groups; nothing when none.
StringMatch(str, re) ==
    IF re.global THEN MatchAll(re, str, 1)
    ELSE LET r == RegExpExec(re, str, 1)
         IN  IF r.ok THEN <<SubSeq(str, r.index, r.end - 1)>> \o r.caps ELSE <<>>

\* String.prototype.split('\n'): the pieces between one newline (or the
\* start) and the next (or the end).
Newlines(str) == {i \in 1..Len(str) : str[i] = NL}
Split(str) ==
    LET nls == Newlines(str)
        n == Cardinality(nls)
        Break(k) == IF k = 0 THEN 0
                    ELSE IF k = n + 1 THEN Len(str) + 1
                    ELSE CHOOSE i \in nls : Cardinality({j \in nls : j < i}) = k - 1
    IN  [k \in 1..(n + 1) |-> SubSeq(str, Break(k - 1) + 1, Break(k) - 1)]

\* Array.prototype.join('\n')
RECURSIVE Join(_)
Join(parts) ==
    IF parts = <<>> THEN <<>>
    ELSE IF Len(parts) = 1 THEN parts[1]
    ELSE parts[1] \o <<NL>> \o Join(Tail(parts))

\* Faulty variant: the later pushes placed first.
RECURSIVE FlatReversed(_)
FlatReversed(ss) == IF ss = <<>> THEN <<>> ELSE FlatReversed(Tail(ss)) \o Head(ss)
\* Array.prototype.flat of a sequence of sequences
RECURSIVE Flat(_)
Flat(ss) == IF ss = <<>> THEN <<>> ELSE Head(ss) \o Flat(Tail(ss))

(***************************************************************************)
(* utils/regex-rules.js: the rules the model carries, in declaration order *)
(***************************************************************************)
Rule(name, items) == [name |-> name, pattern |-> RegExp(items)]

\* AWS_ACCESS_KEY: /AKIA[0-9A-Z]{16}/
\* MONGODB_URI: /mongodb(\+srv)?:\/\/[a-zA-Z0-9_]+:[a-zA-Z0-9_]+@.+/
\* STRIPE_KEY: /(?:sk|pk)_(test|live)_[0-9a-zA-Z]{24}/
KEY_PATTERNS == <<
    Rule("AWS_ACCESS_KEY", Lit(<<"A", "K", "I", "A">>) \o <<Times(Digits \cup Upper, 16)>>),
    Rule("MONGODB_URI",
         Lit(<<"m", "o", "n", "g", "o", "d", "b">>) \o <<Grp(<<Lit(<<"+", "s", "r", "v">>)>>, TRUE, TRUE)>> \o Lit(<<":", "/", "/">>)
         \o <<Plus(WordChars)>> \o Lit(<<":">>) \o <<Plus(WordChars)>> \o Lit(<<"@">>)
         \o <<PlusNot({})>>),
    Rule("STRIPE_KEY",
         <<Grp(<<Lit(<<"s", "k">>), Lit(<<"p", "k">>)>>, FALSE, FALSE)>> \o Lit(<<"_">>)
         \o <<Grp(<<Lit(<<"t", "e", "s", "t">>), Lit(<<"l", "i", "v", "e">>)>>, TRUE, FALSE)>> \o Lit(<<"_">>)
         \o <<Times(Digits \cup Lower \cup Upper, 24)>>) >>

WHITELIST == <<>>

\* HTTP_ENDPOINT: /http:\/\/[^\s/"']+/
\* URL_API_KEY: /\?(api|access)_key=\w+/
\* BASIC_AUTH_IN_URL: /https?:\/\/[^:]+:[^@]+@/
\* DEBUG_ENDPOINTS: /\/(debug|test|sandbox|stage|v1)\//
\* PUBLIC_WRITE_ENDPOINTS: /(\/upload|\/post|\/write)(\/|\?|$)/
\* WILD_CORS: /Access-Control-Allow-Origin:\s*['"]\*['"]/
\* DEFAULT_CREDS: /(username|user|password)\s*=\s*['"](admin|root|test|password)['"]/
INSECURE_API_PATTERNS == <<
    Rule("HTTP_ENDPOINT", Lit(<<"h", "t", "t", "p", ":", "/", "/">>) \o <<PlusNot(Blank \cup {"/", "\"", "'"})>>),
    Rule("URL_API_KEY",
         Lit(<<"?">>) \o <<Grp(<<Lit(<<"a", "p", "i">>), Lit(<<"a", "c", "c", "e", "s", "s">>)>>, TRUE, FALSE)>>
         \o Lit(<<"_", "k", "e", "y", "=">>) \o <<Plus(WordChars)>>),
    Rule("BASIC_AUTH_IN_URL",
         Lit(<<"h", "t", "t", "p">>) \o <<Q({"s"}, FALSE, 0, 1, FALSE)>> \o Lit(<<":", "/", "/">>)
         \o <<PlusNot({":"})>> \o Lit(<<":">>) \o <<PlusNot({"@"})>> \o Lit(<<"@">>)),
    Rule("DEBUG_ENDPOINTS",
         Lit(<<"/">>)
         \o <<Grp(<<Lit(<<"d", "e", "b", "u", "g">>), Lit(<<"t", "e", "s", "t">>), Lit(<<"s", "a", "n", "d", "b", "o", "x">>), Lit(<<"s", "t", "a", "g", "e">>),
                    Lit(<<"v", "1">>)>>, TRUE, FALSE)>>
         \o Lit(<<"/">>)),
    Rule("PUBLIC_WRITE_ENDPOINTS",
         <<Grp(<<Lit(<<"/", "u", "p", "l", "o", "a", "d">>), Lit(<<"/", "p", "o", "s", "t">>), Lit(<<"/", "w", "r", "i", "t", "e">>)>>, TRUE, FALSE),
           Grp(<<Lit(<<"/">>), Lit(<<"?">>), <<Eol>> >>, TRUE, FALSE)>>),
    Rule("WILD_CORS",
         Lit(<<"A", "c", "c", "e", "s", "s", "-", "C", "o", "n", "t", "r", "o", "l", "-", "A", "l", "l", "o", "w", "-", "O", "r", "i", "g", "i", "n", ":">>) \o <<Star(Blank), OneOf({"'", "\""})>> \o Lit(<<"*">>)
         \o <<OneOf({"'", "\""})>>),
    Rule("DEFAULT_CREDS",
         <<Grp(<<Lit(<<"u", "s", "e", "r", "n", "a", "m", "e">>), Lit(<<"u", "s", "e", "r">>), Lit(<<"p", "a", "s", "s", "w", "o", "r", "d">>)>>, TRUE, FALSE),
           Star(Blank)>> \o Lit(<<"=">>) \o <<Star(Blank), OneOf({"'", "\""}),
           Grp(<<Lit(<<"a", "d", "m", "i", "n">>), Lit(<<"r", "o", "o", "t">>), Lit(<<"t", "e", "s", "t">>), Lit(<<"p", "a", "s", "s", "w", "o", "r", "d">>)>>,
               TRUE, FALSE),
           OneOf({"'", "\""})>>) >>

(***************************************************************************)
(* The scanner and the response formatting.                                *)
(***************************************************************************)
Max(a, b) == IF a >= b THEN a ELSE b
Min(a, b) == IF a <= b THEN a ELSE b

\* Faulty variant: the window starts one line late.
getContextStartingLate(lines, lineNumber, contextLines) ==
    LET start == Max(0, lineNumber - contextLines + 1)
        end == Min(Len(lines) - 1, lineNumber + contextLines)
    IN  Join(SubSeq(lines, start + 1, end + 1))
\* getContext(lines, lineNumber, contextLines = 2); lineNumber counts from 0.
getContext(lines, lineNumber, contextLines) ==
    LET start == Max(0, lineNumber - contextLines)
        end == Min(Len(lines) - 1, lineNumber + contextLines)
    IN  Join(SubSeq(lines, start + 1, end + 1))

\* Faulty variant: no default for the names the map lacks.
getApiIssueSeverityWithoutDefault(issueType) ==
    CASE issueType = "HTTP_ENDPOINT" -> "critical"
      [] issueType = "URL_API_KEY" -> "high"
      [] issueType = "BASIC_AUTH_IN_URL" -> "critical"
      [] issueType = "WILD_CORS" -> "medium"
      [] issueType = "DEFAULT_CREDS" -> "high"
      [] OTHER -> ""
\* getApiIssueSeverity: severityMap[issueType] || 'low'
getApiIssueSeverity(issueType) ==
    CASE issueType = "HTTP_ENDPOINT" -> "critical"
      [] issueType = "URL_API_KEY" -> "high"
      [] issueType = "BASIC_AUTH_IN_URL" -> "critical"
      [] issueType = "WILD_CORS" -> "medium"
      [] issueType = "DEFAULT_CREDS" -> "high"
      [] OTHER -> "low"

\* String(x) of a matched value, as RegExp.prototype.test converts its argument.
ToText(match) == IF match = Undefined THEN UndefinedText ELSE match

\* A RegExp object of the WHITELIST array: the pattern and its lastIndex,
\* which a g-flagged pattern keeps from one call of test to the next.
Stateful(re) == [items |-> re.items, global |-> re.global, lastIndex |-> 0]
Imported(list) == [i \in 1..Len(list) |-> Stateful(list[i])]

\* w.test(str): the result and the object after the call.  Without the g
\* flag the search starts at the beginning and lastIndex is left alone; with
\* it the search starts at lastIndex, which becomes the end of the match, or 0
\* when there is none.
RegExpTestAt(w, str) ==
    IF ~w.global THEN [hit |-> RegExpTest(w, str), re |-> w]
    ELSE IF w.lastIndex > Len(str) THEN [hit |-> FALSE, re |-> [w EXCEPT !.lastIndex = 0]]
    ELSE LET r == RegExpExec(w, str, w.lastIndex + 1)
         IN  IF r.ok THEN [hit |-> TRUE, re |-> [w EXCEPT !.lastIndex = r.end - 1]]
             ELSE [hit |-> FALSE, re |-> [w EXCEPT !.lastIndex = 0]]

\* WHITELIST.some(w => w.test(match)) from the i-th pattern on: the patterns
\* are tested in order up to the first that matches.
RECURSIVE WhitelistSome(_, _, _)
WhitelistSome(list, i, str) ==
    IF i > Len(list) THEN [hit |-> FALSE, list |-> list]
    ELSE LET t == RegExpTestAt(list[i], str)
         IN  IF t.hit THEN [hit |-> TRUE, list |-> [list EXCEPT ![i] = t.re]]
             ELSE WhitelistSome([list EXCEPT ![i] = t.re], i + 1, str)

\* scanForSecrets: what `matches.forEach` visits for one rule on one line
\* (lineNumber from 0), each as the finding it would push.
SecretsOfRule(lines, lineNumber, rule) ==
    LET matches == StringMatch(lines[lineNumber + 1], rule.pattern)
    IN  [i \in 1..Len(matches) |->
            [line |-> lineNumber + 1, keyType |-> rule.name, match |-> matches[i],
             context |-> getContext(lines, lineNumber, 2)]]

\* scanForSecrets: the visited matches in order, each pushed unless the
\* whitelist test returns true; the WHITELIST array after each test.
RECURSIVE PushUnlessWhitelisted(_, _, _)
PushUnlessWhitelisted(visited, i, list) ==
    IF i > Len(visited) THEN [findings |-> <<>>, list |-> list]
    ELSE LET t == WhitelistSome(list, 1, ToText(visited[i].match))
             rest == PushUnlessWhitelisted(visited, i + 1, t.list)
         IN  [findings |-> (IF t.hit THEN <<>> ELSE <<visited[i]>>) \o rest.findings,
              list |-> rest.list]

\* scanForSecrets, the WHITELIST array being in state `list`: the findings
\* and the array afterwards.
scanForSecrets(content, list) ==
    LET lines == Split(content)
    IN  PushUnlessWhitelisted(
            Flat([ln \in 1..Len(lines) |->
                Flat([k \in 1..Len(KEY_PATTERNS) |->
                    SecretsOfRule(lines, ln - 1, KEY_PATTERNS[k])])]),
            1, list)

\* scanForSecurityIssues: the api findings of one rule on one line.
ApiIssuesOfRule(lines, lineNumber, rule) ==
    LET matches == StringMatch(lines[lineNumber + 1], rule.pattern)
    IN  [i \in 1..Len(matches) |->
            [line |-> lineNumber + 1, issueType |-> rule.name, match |-> matches[i],
             context |-> getContext(lines, lineNumber, 2),
             severity |-> getApiIssueSeverity(rule.name)]]

scanForSecurityIssues(content, list) ==
    LET lines == Split(content)
    IN  [secrets |-> scanForSecrets(content, list).findings,
         apiIssues |-> Flat([ln \in 1..Len(lines) |->
            Flat([k \in 1..Len(INSECURE_API_PATTERNS) |->
                ApiIssuesOfRule(lines, ln - 1, INSECURE_API_PATTERNS[k])])])]

\* '*'.repeat(n)
Stars(n) == [i \in 1..n |-> "*"]

\* anonymizeMatch: every maximal run of four or more of [a-zA-Z0-9] keeps its
\* first three characters and has the others replaced by '*'.
RECURSIVE anonymizeFrom(_, _)
anonymizeFrom(text, pos) ==
    IF pos > Len(text) THEN <<>>
    ELSE LET n == Run(text, pos, Plus(Lower \cup Upper \cup Digits), 0)
         IN  IF n >= 4
             THEN SubSeq(text, pos, pos + 2) \o Stars(n - 3) \o anonymizeFrom(text, pos + n)
             ELSE IF n > 0
             THEN SubSeq(text, pos, pos + n - 1) \o anonymizeFrom(text, pos + n)
             ELSE <<text[pos]>> \o anonymizeFrom(text, pos + 1)
anonymizeMatch(match) == anonymizeFrom(match, 1)

\* truncateSnippet(text, maxLength); reading .length of undefined throws.
Thrown == <<"TypeError">>
truncateSnippet(text, maxLength) ==
    IF text = Undefined THEN Thrown
    ELSE IF Len(text) <= maxLength THEN anonymizeMatch(text)
    ELSE SubSeq(text, 1, maxLength) \o <<".", ".", ".">>

\* handler: compressedResults and res.json({success: true, ...}); the outer
\* catch's 500 when building them throws.
SNIPPET_LENGTH == 40
ScanResponse(securityReport) ==
    LET secrets == [i \in 1..Len(securityReport.secrets) |->
                       [line |-> securityReport.secrets[i].line,
                        keyType |-> securityReport.secrets[i].keyType,
                        snippet |-> securityReport.secrets[i].match,
                        context |-> securityReport.secrets[i].context]]
        apiIssues == [i \in 1..Len(securityReport.apiIssues) |->
                       [line |-> securityReport.apiIssues[i].line,
                        issueType |-> securityReport.apiIssues[i].issueType,
                        severity |-> securityReport.apiIssues[i].severity,
                        snippet |-> truncateSnippet(securityReport.apiIssues[i].match,
                                                    SNIPPET_LENGTH)]]
    IN  IF \E i \in 1..Len(apiIssues) : apiIssues[i].snippet = Thrown
        THEN [code |-> 500, success |-> FALSE, secrets |-> <<>>, apiIssues |-> <<>>,
              totalSecrets |-> 0, totalApiIssues |-> 0]
        ELSE [code |-> 200, success |-> TRUE, secrets |-> secrets, apiIssues |-> apiIssues,
              totalSecrets |-> Len(securityReport.secrets),
              totalApiIssues |-> Len(securityReport.apiIssues)]

(***************************************************************************)
(* The script harvester: collectScripts and its callbacks.                 *)
(***************************************************************************)
\* content: null
Null == <<"null">>

\* A page: the requests it issues, in order (the first is the document), and
\* its DOM when the harvester queries it.  An element is its tag, its
\* attributes in order and its innerHTML.
Attr(name, value) == [name |-> name, value |-> value]
Elem(tag, attrs, html) == [tag |-> tag, attrs |-> attrs, innerHTML |-> html]
Req(url, type, body) == [url |-> url, type |-> type, body |-> body]

HasAttr(el, name) == \E i \in 1..Len(el.attrs) : el.attrs[i].name = name
AttrValue(el, name) ==
    LET hits == SelectSeq(el.attrs, LAMBDA a : a.name = name)
    IN  IF hits = <<>> THEN <<>> ELSE hits[1].value
StartsWith(s, prefix) == Len(s) >= Len(prefix) /\ SubSeq(s, 1, Len(prefix)) = prefix

OnClick == <<"o", "n", "c", "l", "i", "c", "k">>
SrcAttr == <<"s", "r", "c">>
DataInitial == <<"d", "a", "t", "a", "-", "i", "n", "i", "t", "i", "a", "l">>
DataEval == <<"d", "a", "t", "a", "-", "e", "v", "a", "l">>
ScriptTag == <<"s", "c", "r", "i", "p", "t">>
ButtonTag == <<"b", "u", "t", "t", "o", "n">>
DivTag == <<"d", "i", "v">>

\* A page without any script.
EmptyPage ==
    [reqs |-> <<Req("doc", "document", <<>>)>>,
     dom |-> <<Elem(DivTag, <<>>, <<"h", "i">>)>>]
\* One served external script, one initial and one dynamic inline script, one
\* onclick handler and one eval-marked script.
FivePage ==
    [reqs |-> <<Req("doc", "document", <<>>), Req("u1", "script", <<"e", "=", "1">>)>>,
     dom |-> <<Elem(ScriptTag, <<Attr(SrcAttr, <<"u", "1">>)>>, <<>>),
               Elem(ScriptTag, <<Attr(DataInitial, <<>>)>>, <<"i", "=", "2">>),
               Elem(ScriptTag, <<>>, <<"d", "=", "3">>),
               Elem(ButtonTag, <<Attr(OnClick, <<"h", "(", ")">>)>>, <<"o", "k">>),
               Elem(ScriptTag, <<Attr(DataEval, <<>>)>>, <<"v", "=", "5">>)>>]
\* The same script url requested twice, with two bodies, and an image.
TwinPage ==
    [reqs |-> <<Req("doc", "document", <<>>), Req("u1", "script", <<"x", "=", "1">>),
                Req("img", "image", <<>>), Req("u1", "script", <<"y", "=", "2">>)>>,
     dom |-> <<Elem(ScriptTag, <<Attr(SrcAttr, <<"u", "1">>)>>, <<>>),
               Elem(ScriptTag, <<Attr(SrcAttr, <<"u", "1">>)>>, <<>>)>>]
\* A page whose only script element is empty.
BlankScriptPage ==
    [reqs |-> <<Req("doc", "document", <<>>)>>,
     dom |-> <<Elem(ScriptTag, <<>>, <<>>)>>]
Pages == {EmptyPage, FivePage, TwinPage, BlankScriptPage}

\* handleRequest: the unit pushed for a script request.
PendingUnit(url) == [url |-> url, status |-> "pending", content |-> Null, error |-> ""]
\* Faulty variant: the request is continued without a unit being pushed.
handleRequestUnrecorded(external, request) == external
\* handleRequest: scripts.external when request.continue() is called.
handleRequest(external, request) ==
    IF request.type = "script" THEN Append(external, PendingUnit(request.url)) ELSE external

\* handleResponse: `scripts.external.find(s => s.url === response.url())`, as
\* an index; 0 when the response is no script's or no unit has the url.
FindUnit(external, url) ==
    IF \E i \in 1..Len(external) : external[i].url = url
    THEN CHOOSE i \in 1..Len(external) :
            external[i].url = url /\ \A j \in 1..(i - 1) : external[j].url # url
    ELSE 0
handleResponse(external, request) ==
    IF request.type = "script" THEN FindUnit(external, request.url) ELSE 0
\* handleResponse after `await response.text()`: the unit marked.
MarkLoaded(unit, text) == [unit EXCEPT !.content = text, !.status = "loaded"]
MarkError(unit, message) == [unit EXCEPT !.status = "error", !.error = message]

\* collectInlineScripts
collectInlineScripts(dom) ==
    LET scripts == SelectSeq(dom, LAMBDA el : el.tag = ScriptTag)
        inline == SelectSeq(scripts, LAMBDA el : AttrValue(el, SrcAttr) = <<>>)
    IN  [i \in 1..Len(inline) |->
            [type |-> IF ~HasAttr(inline[i], DataInitial) THEN "dynamic-inline"
                      ELSE "initial-inline",
             content |-> inline[i].innerHTML]]

\* collectEventHandlers
collectEventHandlers(dom) ==
    Flat([e \in 1..Len(dom) |->
        LET on == SelectSeq(dom[e].attrs, LAMBDA a : StartsWith(a.name, <<"o", "n">>))
        IN  [i \in 1..Len(on) |->
                [tag |-> dom[e].tag, event |-> on[i].name, handler |-> on[i].value]]])

\* collectEvalScripts
collectEvalScripts(dom) ==
    LET marked == SelectSeq(dom, LAMBDA el : el.tag = ScriptTag /\ HasAttr(el, DataEval))
    IN  [i \in 1..Len(marked) |-> [type |-> "eval-generated", content |-> marked[i].innerHTML]]

\* collectScripts: the returned blob.
LoadedContents(external) ==
    LET loaded == SelectSeq(external, LAMBDA s : s.status = "loaded")
    IN  [i \in 1..Len(loaded) |-> loaded[i].content]
\* Faulty variant: the handler bodies placed before the inline scripts.
AssembleBlobHandlersFirst(external, inline, handlers, dynamic) ==
    Join(LoadedContents(external)
         \o [i \in 1..Len(handlers) |-> handlers[i].handler]
         \o [i \in 1..Len(inline) |-> inline[i].content]
         \o [i \in 1..Len(dynamic) |-> dynamic[i].content])
AssembleBlob(external, inline, handlers, dynamic) ==
    Join(LoadedContents(external)
         \o [i \in 1..Len(inline) |-> inline[i].content]
         \o [i \in 1..Len(handlers) |-> handlers[i].handler]
         \o [i \in 1..Len(dynamic) |-> dynamic[i].content])

VARIABLES
    \* ---- handler, per request
    pc,            \* position of each request's handler
    lastIp,        \* the ip the handler computed for the latest arrival
    reqUrl,        \* req.body.url
    held,          \* the handler's local `browser`
    failed,        \* an exception is propagating through the finally block
    lastResp,      \* the latest response sent: the request and its HTTP status
    \* ---- browserPool
    instances,     \* browserPool.instances
    pending,       \* browserPool.pending (the resolve callbacks, by request)
    activeCount,   \* browserPool.activeCount
    launched,      \* browsers puppeteer.launch has returned so far: 1..launched
    \* ---- rate limiter
    now,           \* Date.now()
    rateLimitMap,  \* ip -> timestamp, NoEntry when absent
    \* ---- history (not program state)
    lastPass,      \* ip -> time of the last request that passed the gate
    countBefore,   \* activeCount when a request called getBrowser and launched
    othersNet,     \* net change other callers made to activeCount since then
    handedTo,      \* the requests a release resolved with its session, in order
    \* ---- one scan (collectScripts and the handler around it)
    hpc,           \* position of the scan
    page,          \* the page being scanned
    observing,     \* the request and response callbacks are subscribed
    external,      \* scripts.external
    net,           \* each request of the page: unsent, sent (continued), lost (ended
                   \* unanswered), done (answered, no body wanted), reading (its
                   \* callback awaits the body), read, failed (the read rejected)
    bound,         \* the unit each response callback found (its `script`), 0 if none
    continued,     \* times request.continue() was called on each request
    unitsAtContinue, \* history: Len(scripts.external) when it was called
    collected,     \* scripts.inline, scripts.handlers, scripts.dynamic
    blob,          \* the string collectScripts returned
    report,        \* securityReport
    hresp,         \* the scan's response
    whitelist      \* the imported WHITELIST array: its RegExp objects

poolVars == <<instances, pending, activeCount, launched>>
reqVars == <<pc, lastIp, reqUrl, held, failed, lastResp>>
rateVars == <<now, rateLimitMap, lastPass>>
histVars == <<countBefore, othersNet, handedTo>>
scanVars == <<hpc, page, observing, external, net, bound, continued, unitsAtContinue,
              collected, blob, report, hresp, whitelist>>
vars == <<pc, lastIp, reqUrl, held, failed, lastResp, instances, pending, activeCount,
          launched, now, rateLimitMap, lastPass, countBefore, othersNet, handedTo,
          hpc, page, observing, external, net, bound, continued, unitsAtContinue,
          collected, blob, report, hresp, whitelist>>

(***************************************************************************)
(* browserPool                                                             *)
(***************************************************************************)
\* Array.prototype.pop: the last element and the rest.
Last(s) == s[Len(s)]
\* Faulty variant: the popped session stays in the list.
FrontKept(s) == s
Front(s) == SubSeq(s, 1, Len(s) - 1)

\* Faulty variant: the ceiling test off by one
HasCapacityOffByOne(count) == count <= MAX_BROWSERS
\* getBrowser: `this.activeCount < MAX_BROWSERS`
HasCapacity(count) == count < MAX_BROWSERS

\* Faulty variant: the newest waiter is taken
PopWaiter(q) == q[Len(q)]
\* releaseBrowser: `this.pending.shift()`, the resolve callback taken and the rest.
ShiftWaiter(q) == Head(q)
ShiftRest(q) == Tail(q)

\* Faulty variant: the catch rethrows without decrementing
LaunchFailedCountKept(count) == count
\* getBrowser's catch: `this.activeCount--`
LaunchFailedCount(count) == count - 1

\* History: activeCount changed by d on behalf of request r; every other
\* request whose launch is in flight notes it.
NoteOthers(r, d) ==
    [q \in Requests |-> IF q # r /\ pc[q] = "launching" THEN othersNet[q] + d
                        ELSE IF q = r THEN 0 ELSE othersNet[q]]

\* Faulty variant: the window's last instant still rejects
RateLimitedInclusive(map, ip, t) == map[ip] # NoEntry /\ t - map[ip] <= RATE_LIMIT_WINDOW
\* The handler's gate: `rateLimitMap.has(ip) && now - rateLimitMap.get(ip) < RATE_LIMIT_WINDOW`
RateLimited(map, ip, t) == map[ip] # NoEntry /\ t - map[ip] < RATE_LIMIT_WINDOW

\* Faulty variant: the arrival time is not recorded.
rateLimitMapSetSkipped(map, ip, t) == map
\* The handler's write after the gate: `rateLimitMap.set(ip, now)`
rateLimitMapSet(map, ip, t) == [map EXCEPT ![ip] = t]

\* The handler's validation: `if (!url)`
UrlRejected(url) == url = "missing"

PoolInit ==
    /\ pc = [r \in Requests |-> "new"]
    /\ lastIp = 0
    /\ reqUrl = [r \in Requests |-> "none"]
    /\ held = [r \in Requests |-> NoBrowser]
    /\ failed = [r \in Requests |-> FALSE]
    /\ lastResp = NoResp
    /\ instances = <<>>
    /\ pending = <<>>
    /\ activeCount = 0
    /\ launched = 0
    /\ now = 0
    /\ rateLimitMap = [i \in IPs |-> NoEntry]
    /\ lastPass = [i \in IPs |-> NoEntry]
    /\ countBefore = [r \in Requests |-> 0]
    /\ othersNet = [r \in Requests |-> 0]
    /\ handedTo = <<>>

\* The scan of HarvestSpec and ScanSpec, not started.
NoCollected == [inline |-> <<>>, handlers |-> <<>>, dynamic |-> <<>>]
NoReport == [secrets |-> <<>>, apiIssues |-> <<>>]
NoScan == [code |-> 0, success |-> FALSE, secrets |-> <<>>, apiIssues |-> <<>>,
           totalSecrets |-> 0, totalApiIssues |-> 0]
\* The outer catch: res.status(500).json({error})
ScanError == [code |-> 500, success |-> FALSE, secrets |-> <<>>, apiIssues |-> <<>>,
              totalSecrets |-> 0, totalApiIssues |-> 0]

ScanIdle(p) ==
    /\ page = p
    /\ observing = FALSE
    /\ external = <<>>
    /\ net = [i \in 1..Len(p.reqs) |-> "unsent"]
    /\ bound = [i \in 1..Len(p.reqs) |-> 0]
    /\ continued = [i \in 1..Len(p.reqs) |-> 0]
    /\ unitsAtContinue = [i \in 1..Len(p.reqs) |-> 0]
    /\ collected = NoCollected
    /\ report = NoReport
    /\ hresp = NoScan

Init ==
    /\ PoolInit
    /\ hpc = "off" /\ blob = <<>> /\ whitelist = Imported(WHITELIST)
    /\ ScanIdle(EmptyPage)

\* handler, from its entry to its first await: the rate-limit gate, the url
\* check and the synchronous part of browserPool.getBrowser().
Arrive(r, ips, urls) ==
    /\ pc[r] = "new"
    /\ \A q \in Requests : q < r => pc[q] # "new"
    /\ \E ip \in ips, url \in urls :
        /\ lastIp' = ip
        /\ reqUrl' = [reqUrl EXCEPT ![r] = IF RateLimited(rateLimitMap, ip, now)
                                              \/ UrlRejected(url)
                                           THEN "none" ELSE url]
        /\ IF RateLimited(rateLimitMap, ip, now)
           THEN /\ lastResp' = Resp(r, 429)
                /\ pc' = [pc EXCEPT ![r] = "done"]
                /\ UNCHANGED <<rateLimitMap, lastPass, poolVars, held, countBefore,
                               othersNet>>
           ELSE /\ rateLimitMap' = rateLimitMapSet(rateLimitMap, ip, now)
                /\ lastPass' = [lastPass EXCEPT ![ip] = now]
                /\ IF UrlRejected(url)
                   THEN /\ lastResp' = Resp(r, 400)
                        /\ pc' = [pc EXCEPT ![r] = "done"]
                        /\ UNCHANGED <<poolVars, held, countBefore, othersNet>>
                   ELSE /\ lastResp' = lastResp
                        /\ IF Len(instances) > 0
                           THEN /\ held' = [held EXCEPT ![r] = Last(instances)]
                                /\ instances' = Front(instances)
                                /\ pc' = [pc EXCEPT ![r] = "acquired"]
                                /\ UNCHANGED <<pending, activeCount, launched, countBefore,
                                               othersNet>>
                           ELSE IF HasCapacity(activeCount)
                           THEN /\ activeCount' = activeCount + 1
                                /\ countBefore' = [countBefore EXCEPT ![r] = activeCount]
                                /\ othersNet' = NoteOthers(r, 1)
                                /\ pc' = [pc EXCEPT ![r] = "launching"]
                                /\ UNCHANGED <<instances, pending, launched, held>>
                           ELSE /\ pending' = Append(pending, r)
                                /\ pc' = [pc EXCEPT ![r] = "waiting"]
                                /\ UNCHANGED <<instances, activeCount, launched, held,
                                               countBefore, othersNet>>
    /\ UNCHANGED <<scanVars, now, failed, handedTo>>

\* getBrowser: puppeteer.launch resolves; the handler resumes with the browser.
LaunchOk(r) ==
    /\ pc[r] = "launching"
    /\ launched' = launched + 1
    /\ held' = [held EXCEPT ![r] = launched + 1]
    /\ pc' = [pc EXCEPT ![r] = "acquired"]
    /\ countBefore' = [countBefore EXCEPT ![r] = 0]
    /\ othersNet' = [othersNet EXCEPT ![r] = 0]
    /\ UNCHANGED <<scanVars, lastIp, reqUrl, failed, lastResp, instances, pending, activeCount,
                   rateVars, handedTo>>

\* getBrowser: puppeteer.launch rejects; the catch decrements and rethrows, and
\* the handler's outer catch answers 500.
LaunchFail(r) ==
    /\ pc[r] = "launching"
    /\ activeCount' = LaunchFailedCount(activeCount)
    /\ lastResp' = Resp(r, 500)
    /\ pc' = [pc EXCEPT ![r] = "done"]
    /\ countBefore' = [countBefore EXCEPT ![r] = 0]
    /\ othersNet' = NoteOthers(r, activeCount' - activeCount)
    /\ reqUrl' = [reqUrl EXCEPT ![r] = "none"]
    /\ UNCHANGED <<scanVars, lastIp, held, failed, instances, pending, launched, rateVars,
                   handedTo>>

\* handler: `await browser.newPage()` resolves; the inner try is entered.
NewPageOk(r) ==
    /\ pc[r] = "acquired"
    /\ pc' = [pc EXCEPT ![r] = "scanning"]
    /\ UNCHANGED <<scanVars, lastIp, reqUrl, held, failed, lastResp, poolVars, rateVars, histVars>>

\* handler: `await browser.newPage()` rejects, outside the inner try: the outer
\* catch answers 500 and the finally block is never entered.
NewPageFail(r) ==
    /\ pc[r] = "acquired"
    /\ lastResp' = Resp(r, 500)
    /\ pc' = [pc EXCEPT ![r] = "done"]
    /\ held' = [held EXCEPT ![r] = NoBrowser]
    /\ reqUrl' = [reqUrl EXCEPT ![r] = "none"]
    /\ UNCHANGED <<scanVars, lastIp, failed, poolVars, rateVars, histVars>>

\* handler: collectScripts, the scan and res.json succeed; the finally block
\* starts with `await page.close()`.  page.goto rejects a url that is no
\* absolute URL, so only a valid url gets here.
ScanOk(r) ==
    /\ pc[r] = "scanning"
    /\ reqUrl[r] = "valid"
    /\ lastResp' = Resp(r, 200)
    /\ pc' = [pc EXCEPT ![r] = "closing"]
    /\ reqUrl' = [reqUrl EXCEPT ![r] = "none"]
    /\ UNCHANGED <<scanVars, lastIp, held, failed, poolVars, rateVars, histVars>>

\* handler: navigation or idle-wait times out, or the harvester or the scanner
\* throws; the finally block starts with the exception pending.
ScanFail(r) ==
    /\ pc[r] = "scanning"
    /\ failed' = [failed EXCEPT ![r] = TRUE]
    /\ pc' = [pc EXCEPT ![r] = "closing"]
    /\ reqUrl' = [reqUrl EXCEPT ![r] = "none"]
    /\ UNCHANGED <<scanVars, lastIp, held, lastResp, poolVars, rateVars, histVars>>

\* handler: the finally block after page.close() settled (its rejection is
\* swallowed): browserPool.releaseBrowser(browser); then the outer catch, if
\* an exception is pending.
Release(r) ==
    /\ pc[r] = "closing"
    /\ IF Len(pending) > 0
       THEN /\ held' = [held EXCEPT ![r] = NoBrowser, ![ShiftWaiter(pending)] = held[r]]
            /\ pc' = [pc EXCEPT ![r] = "done", ![ShiftWaiter(pending)] = "acquired"]
            /\ pending' = ShiftRest(pending)
            /\ instances' = instances
            /\ handedTo' = Append(handedTo, ShiftWaiter(pending))
       ELSE /\ held' = [held EXCEPT ![r] = NoBrowser]
            /\ pc' = [pc EXCEPT ![r] = "done"]
            /\ instances' = Append(instances, held[r])
            /\ pending' = pending
            /\ handedTo' = handedTo
    /\ lastResp' = IF failed[r] THEN Resp(r, 500) ELSE lastResp
    /\ failed' = [failed EXCEPT ![r] = FALSE]
    /\ UNCHANGED <<scanVars, lastIp, reqUrl, activeCount, launched, rateVars, countBefore,
                   othersNet>>

\* Time passes.  Only an arriving request and the sweep read the clock, and the
\* sweep's effect shows only to a later arrival: the clock stops with the last
\* arrival.
Tick ==
    /\ \E r \in RateRequests : pc[r] = "new"
    /\ now < MaxTicks * TickMs
    /\ now' = now + TickMs
    /\ UNCHANGED <<scanVars, reqVars, poolVars, rateLimitMap, lastPass, histVars>>

\* Faulty variant: every entry older than the clock reading is deleted.
StaleAtOnce(timestamp, t) == t - timestamp > 0
\* The sweep's test: `now - timestamp > RATE_LIMIT_WINDOW * 2`
Stale(timestamp, t) == t - timestamp > RATE_LIMIT_WINDOW * 2

\* The setInterval callback: entries older than twice the window are deleted.
Sweep ==
    /\ \E r \in RateRequests : pc[r] = "new"
    /\ rateLimitMap' = [i \in IPs |->
            IF rateLimitMap[i] # NoEntry /\ Stale(rateLimitMap[i], now)
            THEN NoEntry ELSE rateLimitMap[i]]
    /\ UNCHANGED <<scanVars, reqVars, poolVars, now, lastPass, histVars>>

Next ==
    \/ \E r \in Requests : Arrive(r, OwnOrFirst(r), Urls)
    \/ \E r \in Requests : LaunchOk(r)
    \/ \E r \in Requests : LaunchFail(r)
    \/ \E r \in Requests : NewPageOk(r)
    \/ \E r \in Requests : NewPageFail(r)
    \/ \E r \in Requests : ScanOk(r)
    \/ \E r \in Requests : ScanFail(r)
    \/ \E r \in Requests : Release(r)

Spec == Init /\ [][Next]_vars

\* Every handler that can continue eventually does: the event loop runs every
\* settled promise's continuation, and launch, newPage, navigation, idle-wait
\* and page.close all settle (each carries a timeout).
Continue(r) ==
    \/ LaunchOk(r) \/ LaunchFail(r)
    \/ NewPageOk(r) \/ NewPageFail(r)
    \/ ScanOk(r) \/ ScanFail(r)
    \/ Release(r)

FairSpec == Spec /\ \A r \in Requests : WF_vars(Continue(r))

RateNext ==
    \/ \E r \in RateRequests : Arrive(r, TwoClients(r), RateUrls)
    \/ \E r \in RateRequests : LaunchOk(r)
    \/ \E r \in RateRequests : LaunchFail(r)
    \/ \E r \in RateRequests : NewPageOk(r)
    \/ \E r \in RateRequests : NewPageFail(r)
    \/ \E r \in RateRequests : ScanOk(r)
    \/ \E r \in RateRequests : ScanFail(r)
    \/ \E r \in RateRequests : Release(r)
    \/ Tick
    \/ Sweep

RateSpec == Init /\ [][RateNext]_vars

(***************************************************************************)
(* One scan: collectScripts on one page, then the scanner and the          *)
(* response.  The pool and the other requests stay as constructed.         *)
(***************************************************************************)
\* The handler is awaiting page.setRequestInterception(true) on a fresh page.
HarvestInit ==
    /\ PoolInit
    /\ hpc = "created" /\ blob = <<>> /\ whitelist = Imported(WHITELIST)
    /\ \E p \in Pages : ScanIdle(p)

\* collectScripts, after setRequestInterception: page.on('request'),
\* page.on('response') and the call of page.goto.
Navigate ==
    /\ hpc = "created"
    /\ hpc' = "navigating"
    /\ observing' = TRUE
    /\ UNCHANGED <<page, external, net, bound, continued, unitsAtContinue, collected, blob, report, hresp>>
    /\ UNCHANGED <<reqVars, poolVars, rateVars, histVars, whitelist>>

Loading == hpc \in {"navigating", "settling", "collecting", "collected"}

\* The page issues its next request and the 'request' callback runs.
PageRequest(i) ==
    /\ Loading
    /\ net[i] = "unsent"
    /\ \A j \in 1..(i - 1) : net[j] # "unsent"
    /\ external' = IF observing THEN handleRequest(external, page.reqs[i]) ELSE external
    /\ continued' = [continued EXCEPT ![i] = IF observing THEN @ + 1 ELSE @]
    /\ unitsAtContinue' =
          [unitsAtContinue EXCEPT ![i] = Len(handleRequest(external, page.reqs[i]))]
    /\ net' = [net EXCEPT ![i] = "sent"]
    /\ UNCHANGED <<hpc, page, observing, bound, collected, blob, report, hresp>>
    /\ UNCHANGED <<reqVars, poolVars, rateVars, histVars, whitelist>>

\* A response arrives and the 'response' callback runs up to its await.
PageResponse(i) ==
    /\ Loading
    /\ net[i] = "sent"
    /\ LET unit == handleResponse(external, page.reqs[i])
       IN  /\ bound' = [bound EXCEPT ![i] = unit]
           /\ net' = [net EXCEPT ![i] = IF unit = 0 THEN "done" ELSE "reading"]
    /\ UNCHANGED <<hpc, page, observing, external, continued, unitsAtContinue, collected, blob, report, hresp>>
    /\ UNCHANGED <<reqVars, poolVars, rateVars, histVars, whitelist>>

\* A request ends without a response.
RequestLost(i) ==
    /\ Loading
    /\ net[i] = "sent"
    /\ net' = [net EXCEPT ![i] = "lost"]
    /\ UNCHANGED <<hpc, page, observing, external, bound, continued, unitsAtContinue, collected, blob,
                   report, hresp>>
    /\ UNCHANGED <<reqVars, poolVars, rateVars, histVars, whitelist>>

\* `await response.text()` resolves: the callback marks the unit it found.
BodyRead(i) ==
    /\ Loading
    /\ net[i] = "reading"
    /\ external' = [external EXCEPT ![bound[i]] = MarkLoaded(@, page.reqs[i].body)]
    /\ net' = [net EXCEPT ![i] = "read"]
    /\ UNCHANGED <<hpc, page, observing, bound, continued, unitsAtContinue, collected, blob, report, hresp>>
    /\ UNCHANGED <<reqVars, poolVars, rateVars, histVars, whitelist>>

\* `await response.text()` rejects: the callback's catch.
BodyReadFail(i) ==
    /\ Loading
    /\ net[i] = "reading"
    /\ external' = [external EXCEPT ![bound[i]] = MarkError(@, "read failed")]
    /\ net' = [net EXCEPT ![i] = "failed"]
    /\ UNCHANGED <<hpc, page, observing, bound, continued, unitsAtContinue, collected, blob, report, hresp>>
    /\ UNCHANGED <<reqVars, poolVars, rateVars, histVars, whitelist>>

\* page.goto resolves at domcontentloaded: the document has been answered.
GotoDone ==
    /\ hpc = "navigating"
    /\ net[1] \in {"reading", "done"}
    /\ hpc' = "settling"
    /\ UNCHANGED <<page, observing, external, net, bound, continued, unitsAtContinue, collected, blob,
                   report, hresp>>
    /\ UNCHANGED <<reqVars, poolVars, rateVars, histVars, whitelist>>

\* page.waitForNetworkIdle resolves: no request is in flight; the three
\* page.evaluate calls of Promise.all start.
IdleDone ==
    /\ hpc = "settling"
    /\ \A i \in 1..Len(net) : net[i] # "sent"
    /\ hpc' = "collecting"
    /\ UNCHANGED <<page, observing, external, net, bound, continued, unitsAtContinue, collected, blob,
                   report, hresp>>
    /\ UNCHANGED <<reqVars, poolVars, rateVars, histVars, whitelist>>

\* The three page.evaluate calls resolve.
Collect ==
    /\ hpc = "collecting"
    /\ hpc' = "collected"
    /\ collected' = [inline |-> collectInlineScripts(page.dom),
                     handlers |-> collectEventHandlers(page.dom),
                     dynamic |-> collectEvalScripts(page.dom)]
    /\ UNCHANGED <<page, observing, external, net, bound, continued, unitsAtContinue, blob, report, hresp>>
    /\ UNCHANGED <<reqVars, poolVars, rateVars, histVars, whitelist>>

\* handler: scanForSecurityIssues(scripts), compressedResults, res.json.
Respond(sourceCode) ==
    /\ hpc' = "responded"
    /\ blob' = sourceCode
    /\ report' = scanForSecurityIssues(sourceCode, whitelist)
    /\ hresp' = ScanResponse(scanForSecurityIssues(sourceCode, whitelist))
    /\ whitelist' = scanForSecrets(sourceCode, whitelist).list

\* collectScripts after Promise.all: the blob is assembled and returned, and
\* the handler scans it and responds.
Assemble ==
    /\ hpc = "collected"
    /\ Respond(AssembleBlob(external, collected.inline, collected.handlers,
                            collected.dynamic))
    /\ UNCHANGED <<page, observing, external, net, bound, continued, unitsAtContinue, collected>>
    /\ UNCHANGED <<reqVars, poolVars, rateVars, histVars>>

\* An await of collectScripts rejects (navigation or idle timeout, a failed
\* evaluate): the handler's outer catch answers 500.
HarvestFail ==
    /\ hpc \in {"created", "navigating", "settling", "collecting"}
    /\ hpc' = "failed"
    /\ hresp' = ScanError
    /\ UNCHANGED <<page, observing, external, net, bound, continued, unitsAtContinue, collected, blob,
                   report>>
    /\ UNCHANGED <<reqVars, poolVars, rateVars, histVars, whitelist>>

HarvestNext ==
    \/ Navigate
    \/ \E i \in 1..Len(net) : PageRequest(i)
    \/ \E i \in 1..Len(net) : PageResponse(i)
    \/ \E i \in 1..Len(net) : RequestLost(i)
    \/ \E i \in 1..Len(net) : BodyRead(i)
    \/ \E i \in 1..Len(net) : BodyReadFail(i)
    \/ GotoDone
    \/ IdleDone
    \/ Collect
    \/ Assemble
    \/ HarvestFail

HarvestSpec == HarvestInit /\ [][HarvestNext]_vars

(***************************************************************************)
(* The scanner on every blob of at most MaxLines lines.                    *)
(***************************************************************************)
MongoLine ==
    <<"m", "o", "n", "g", "o", "d", "b", ":", "/", "/", "u", ":", "p", "@", "h",
      "/", "u", "p", "l", "o", "a", "d", "?", "a", "p", "i", "_", "k", "e", "y", "=", "k", "1">>
\* The lines of the blobs: an empty line, a line with two http endpoints, and
\* a line with a MongoDB uri that ends in a write endpoint and an api key.
ScanLines ==
    { <<>>,
      <<"h", "t", "t", "p", ":", "/", "/", "a", " ", "h", "t", "t", "p", ":", "/", "/", "b">>,
      MongoLine }

RECURSIVE LinesUpTo(_)
LinesUpTo(n) ==
    IF n = 0 THEN {<<>>}
    ELSE LinesUpTo(n - 1)
         \cup {Append(ls, l) : ls \in {x \in LinesUpTo(n - 1) : Len(x) = n - 1}, l \in ScanLines}
\* A line whose secret and whose http endpoint are longer than the handler's
\* snippet length: a MongoDB uri followed by a url of a long host.
LongLine ==
    <<"m", "o", "n", "g", "o", "d", "b", ":", "/", "/", "u", ":", "p", "@", "h", " ",
      "h", "t", "t", "p", ":", "/", "/">> \o [i \in 1..LongHost |-> "a"]
LongBlobs == {LongLine} \cup {Join(<<l, LongLine>>) : l \in ScanLines}
\* Lines on which the other insecure-API rules match: basic auth in an http
\* url of a debug endpoint, a wildcard CORS header, default credentials.
AuthLine == <<"h", "t", "t", "p", ":", "/", "/", "u", ":", "p", "@", "h", "/", "v", "1", "/">>
CorsLine ==
    <<"A", "c", "c", "e", "s", "s", "-", "C", "o", "n", "t", "r", "o", "l", "-">>
    \o <<"A", "l", "l", "o", "w", "-", "O", "r", "i", "g", "i", "n", ":", " ", "'", "*", "'">>
CredsLine == <<"u", "s", "e", "r", "=", "'", "a", "d", "m", "i", "n", "'">>
RuleBlobs ==
    {AuthLine, CorsLine, CredsLine, Join(<<AuthLine, CorsLine, CredsLine, MongoLine>>)}
ScanBlobs == {Join(ls) : ls \in LinesUpTo(MaxLines)} \cup LongBlobs \cup RuleBlobs

\* A line with an AWS access key in the host of an http url.
KeyLine ==
    <<"h", "t", "t", "p", ":", "/", "/", "A", "K", "I", "A">> \o [i \in 1..16 |-> "0"]
KeyBlobs ==
    {Join(<<a>>) : a \in {KeyLine, MongoLine}}
    \cup {Join(<<a, b>>) : a, b \in {KeyLine, MongoLine}}
\* The WHITELIST array as the rule table has it (empty), and configured with
\* one pattern for the prefix of an AWS key, without and with the g flag.
KeyPrefix == RegExp(Lit(<<"A", "K", "I", "A">>))
Whitelists ==
    { Imported(WHITELIST),
      Imported(<<KeyPrefix>>),
      Imported(<<[KeyPrefix EXCEPT !.global = TRUE]>>) }

\* collectScripts has returned one of the blobs.
ScanInit ==
    /\ PoolInit
    /\ hpc = "collected"
    /\ ScanIdle(EmptyPage)
    /\ \/ blob \in ScanBlobs /\ whitelist = Imported(WHITELIST)
       \/ blob \in KeyBlobs /\ whitelist \in Whitelists

ScanBlob ==
    /\ hpc = "collected"
    /\ Respond(blob)
    /\ UNCHANGED <<page, observing, external, net, bound, continued, unitsAtContinue, collected>>
    /\ UNCHANGED <<reqVars, poolVars, rateVars, histVars>>

ScanNext == ScanBlob
ScanSpec == ScanInit /\ [][ScanNext]_vars

(***************************************************************************)
(* Claims about the pool and the handler (Spec, FairSpec, RateSpec).       *)
(***************************************************************************)
\* A handler that holds a session and has not returned.
Running(r) == pc[r] \in {"acquired", "scanning", "closing"}
InFreeList(b) == \E i \in 1..Len(instances) : instances[i] = b
\* Browsers instantiated or being instantiated, counted without activeCount.
Launching == {r \in Requests : pc[r] = "launching"}
Instantiated == launched + Cardinality(Launching)
Waiting == {r \in Requests : pc[r] = "waiting"}
\* Requests are numbered as they arrive and getBrowser runs on arrival: the
\* longest-waiting caller is the waiting request with the least number.
LongestWaiting == CHOOSE w \in Waiting : \A q \in Waiting : w <= q
\* Steps of one request.
Arrives(r) == pc[r] = "new" /\ pc'[r] # "new"
LaunchFails(r) == pc[r] = "launching" /\ pc'[r] = "done"
Releases(r) == pc[r] = "closing" /\ pc'[r] = "done"

\* C1: every launched session is in the free list, or held by a handler that is
\* still running (a waiter it was handed to included): none is lost on any exit
\* path of the handler.
C1_NoSessionLost ==
    \A b \in 1..launched : InFreeList(b) \/ \E r \in Requests : Running(r) /\ held[r] = b

\* C2: the browsers instantiated or being instantiated never exceed the
\* ceiling; an acquire made when the ceiling is reached and no session is idle
\* is queued and instantiates nothing, and a queued caller resumes only with
\* the session of a release.
C2_Ceiling == Instantiated <= MAX_BROWSERS
C2_SuspendsAtCeiling ==
    \A r \in Requests :
        /\ (Arrives(r) /\ pc'[r] # "done" /\ Instantiated = MAX_BROWSERS /\ instances = <<>>)
              => (pc'[r] = "waiting" /\ Instantiated' = Instantiated)
        /\ (pc[r] = "waiting" /\ pc'[r] # "waiting")
              => \E q \in Requests : Releases(q) /\ held'[r] = held[q] /\ held[q] # NoBrowser
C2_NeverAboveCeiling == [](C2_Ceiling) /\ [][C2_SuspendsAtCeiling]_vars
\* A caller is queued at the ceiling while another caller's launch is in flight.
C2_Witness == Waiting # {} /\ Launching # {} /\ Instantiated = MAX_BROWSERS

\* C3: every caller of acquire that is queued eventually leaves the queue,
\* with a session or with an error.
C3_NeverQueuedForever == \A r \in Requests : (pc[r] = "waiting") ~> (pc[r] # "waiting")

\* C5: no request whose url is missing or is no absolute URL does browser work:
\* none acquires, launches, waits for or uses a session.
C5_InvalidUrlDoesNoBrowserWork ==
    \A r \in Requests :
        pc[r] \in {"launching", "waiting", "acquired", "scanning"} => reqUrl[r] = "valid"

\* C6: a request arriving less than the window after its address's last passing
\* request is answered 429 and touches neither the pool nor the table; one
\* arriving when the window has elapsed, or first from its address, passes.
C6_Gate ==
    \A r \in Requests : Arrives(r) =>
        LET ip == lastIp'
            recent == lastPass[ip] # NoEntry /\ now - lastPass[ip] < RATE_LIMIT_WINDOW
        IN  IF recent
            THEN /\ lastResp' = Resp(r, 429)
                 /\ pc'[r] = "done"
                 /\ UNCHANGED <<poolVars, held, lastPass, rateLimitMap>>
            ELSE /\ lastResp' # Resp(r, 429)
                 /\ lastPass'[ip] = now
                 /\ rateLimitMap'[ip] = now
C6_RateLimit == [][C6_Gate]_vars
\* Request 2 was answered 429, and request 3 then passed from that address once
\* the window had elapsed.
C6_Witness ==
    /\ lastResp = Resp(2, 429)
    /\ pc[3] \notin {"new", "done"}
    /\ lastPass[lastIp] = now /\ now >= RATE_LIMIT_WINDOW
    /\ \A i \in IPs : i # lastIp => lastPass[i] = NoEntry

\* C8: a release with callers queued resolves the longest-waiting one, and only
\* that one, with the session, which does not enter the free list; a release
\* with nobody queued appends the session to the free list.
C8_Release ==
    \A r \in Requests : Releases(r) =>
        IF Waiting # {}
        THEN /\ pc'[LongestWaiting] = "acquired"
             /\ held'[LongestWaiting] = held[r]
             /\ instances' = instances
             /\ \A q \in Waiting \ {LongestWaiting} :
                    pc'[q] = "waiting" /\ held'[q] = NoBrowser
        ELSE /\ instances' = Append(instances, held[r])
             /\ \A q \in Requests \ {r} : held'[q] = held[q]
C8_HandOff == [][C8_Release]_vars
\* Two callers were queued and releases resolved them in their order of arrival.
C8_Witness == Len(handedTo) >= 2 /\ handedTo[1] < handedTo[2]

\* C9 as stated: after a failed launch the count equals its value before the call.
C9_CountAsBeforeCall ==
    [][\A r \in Requests : LaunchFails(r) => activeCount' = countBefore[r]]_vars
\* C9 as amended: the failed launch takes back its own increment, so the count
\* after it is its value before the call plus what other callers added and took
\* back in between, and a later acquire finds capacity.
C9_FailedLaunch ==
    \A r \in Requests : LaunchFails(r) =>
        /\ activeCount' = activeCount - 1
        /\ activeCount' = countBefore[r] + othersNet[r]
        /\ activeCount' = Instantiated'
        /\ activeCount' < MAX_BROWSERS
C9_OwnIncrementUndone == [][C9_FailedLaunch]_vars
\* Request 1's launch failed while request 2's launch was in flight.
C9_Witness ==
    /\ pc[1] = "done" /\ lastResp = Resp(1, 500) /\ launched = 0
    /\ pc[2] = "launching" /\ activeCount = 1

(***************************************************************************)
(* The harvester's blob and the scanner's findings.                        *)
(***************************************************************************)
\* C4: when the assembled blob is empty the scan answers with an error; it
\* never answers success: true with empty lists.  The handler has no such
\* check: a page without scripts is answered 200 with an empty report.
C4_EmptyBlobIsAnError ==
    (hpc = "responded" /\ blob = <<>>) => ~hresp.success

\* Every match of a pattern on a line, as a g-flagged search finds them.
AllMatches(rule, line) == MatchAll([rule.pattern EXCEPT !.global = TRUE], line, 1)
SecretMatchesOn(ln, name) ==
    LET found == SelectSeq(report.secrets, LAMBDA f : f.line = ln /\ f.keyType = name)
    IN  [i \in 1..Len(found) |-> found[i].match]
ApiMatchesOn(ln, name) ==
    LET found == SelectSeq(report.apiIssues, LAMBDA f : f.line = ln /\ f.issueType = name)
    IN  [i \in 1..Len(found) |-> found[i].match]

\* C7: for every line of the blob and every rule, the findings of that line
\* and rule are exactly the non-overlapping matches of the rule's pattern on
\* the line, each finding's match being the matched text.  The patterns carry
\* no g flag, so the scanner reports the first match and then its capture
\* groups.
C7_OneFindingPerMatch ==
    hpc = "responded" =>
        \A ln \in 1..Len(Split(blob)) :
            /\ \A k \in 1..Len(KEY_PATTERNS) :
                  SecretMatchesOn(ln, KEY_PATTERNS[k].name)
                      = AllMatches(KEY_PATTERNS[k], Split(blob)[ln])
            /\ \A k \in 1..Len(INSECURE_API_PATTERNS) :
                  ApiMatchesOn(ln, INSECURE_API_PATTERNS[k].name)
                      = AllMatches(INSECURE_API_PATTERNS[k], Split(blob)[ln])

\* The first position from `from` on at which frag occurs in str, 0 if none.
RECURSIVE FindFrom(_, _, _)
FindFrom(str, frag, from) ==
    IF from + Len(frag) - 1 > Len(str) THEN 0
    ELSE IF SubSeq(str, from, from + Len(frag) - 1) = frag THEN from
    ELSE FindFrom(str, frag, from + 1)
\* The fragments occur in str one after the other.
RECURSIVE ContainsInOrder(_, _, _)
ContainsInOrder(str, frags, from) ==
    IF frags = <<>> THEN TRUE
    ELSE LET at == FindFrom(str, Head(frags), from)
         IN  at # 0 /\ ContainsInOrder(str, Tail(frags), at + Len(Head(frags)))

\* The text of the units that are resolved: the external units that are
\* neither pending nor in error, then the inline scripts, the handlers and the
\* eval-generated scripts.
ResolvedTexts ==
    LET resolved == SelectSeq(external, LAMBDA u : u.status \notin {"pending", "error"})
    IN  [i \in 1..Len(resolved) |-> resolved[i].content]
        \o [i \in 1..Len(collected.inline) |-> collected.inline[i].content]
        \o [i \in 1..Len(collected.handlers) |-> collected.handlers[i].handler]
        \o [i \in 1..Len(collected.dynamic) |-> collected.dynamic[i].content]
FiveFragments ==
    <<FivePage.reqs[2].body, FivePage.dom[2].innerHTML, FivePage.dom[3].innerHTML,
      FivePage.dom[4].attrs[1].value, FivePage.dom[5].innerHTML>>
FivePageServed ==
    page = FivePage /\ Len(external) = 1 /\ external[1].status = "loaded"

\* C10: the returned blob is the newline-joined text of the resolved units in
\* the order external, inline, handlers, eval-generated; pending and failed
\* external units contribute nothing; the page with five kinds of script,
\* its external script served, yields a blob with the five fragments in that
\* order.
C10_BlobInCategoryOrder ==
    hpc = "responded" =>
        /\ blob = Join(ResolvedTexts)
        /\ FivePageServed => ContainsInOrder(blob, FiveFragments, 1)
C10_Witness ==
    hpc = "responded" /\ FivePageServed /\ hresp.success

\* The snippets of the response, of both lists.
Snippets ==
    [i \in 1..Len(hresp.secrets) |-> hresp.secrets[i].snippet]
    \o [i \in 1..Len(hresp.apiIssues) |-> hresp.apiIssues[i].snippet]

\* C11: no snippet of the response, in secrets or in apiIssues, is longer than
\* the snippet length plus the three characters of the ellipsis.  The handler
\* truncates the apiIssues snippets only; a secret's snippet is its match.
C11_SnippetsWithinBudget ==
    hpc = "responded" =>
        \A i \in 1..Len(Snippets) : Len(Snippets[i]) <= SNIPPET_LENGTH + 3

\* The place of a rule in its table's declaration order.
RuleIndex(table, name) == CHOOSE k \in 1..Len(table) : table[k].name = name
\* The two lists of the report, each finding with its rule's place.
SecretFindings ==
    [i \in 1..Len(report.secrets) |->
        [line |-> report.secrets[i].line, match |-> report.secrets[i].match,
         rule |-> RuleIndex(KEY_PATTERNS, report.secrets[i].keyType)]]
ApiFindings ==
    [i \in 1..Len(report.apiIssues) |->
        [line |-> report.apiIssues[i].line, match |-> report.apiIssues[i].match,
         rule |-> RuleIndex(INSECURE_API_PATTERNS, report.apiIssues[i].issueType)]]
\* Earlier line first; on one line the earlier-declared rule first.
InInputOrder(fs) ==
    \A i, j \in 1..Len(fs) : i < j =>
        \/ fs[i].line < fs[j].line
        \/ fs[i].line = fs[j].line /\ fs[i].rule <= fs[j].rule
\* The findings of one line and rule start with the leftmost occurrence of
\* the rule's pattern on the line.
EarliestOccurrenceFirst(fs, table, lines) ==
    \A i \in 1..Len(fs) :
        (i = 1 \/ fs[i - 1].line # fs[i].line \/ fs[i - 1].rule # fs[i].rule) =>
            LET all == AllMatches(table[fs[i].rule], lines[fs[i].line])
            IN  all # <<>> /\ fs[i].match = all[1]
\* The line field is the 1-based index of a line of the blob, on which the
\* text of the finding occurs.
OnItsLine(fs, lines) ==
    \A i \in 1..Len(fs) :
        /\ fs[i].line \in 1..Len(lines)
        /\ fs[i].match # Undefined => FindFrom(lines[fs[i].line], fs[i].match, 1) # 0

Contexts ==
    [i \in 1..Len(report.secrets) |->
        [line |-> report.secrets[i].line, context |-> report.secrets[i].context]]
    \o [i \in 1..Len(report.apiIssues) |->
        [line |-> report.apiIssues[i].line, context |-> report.apiIssues[i].context]]
\* The lines of an N-line blob at most two away from its line L (from 1).
WindowLines(lines, L) ==
    LET first == IF L - 2 < 1 THEN 1 ELSE L - 2
        last == IF L + 2 > Len(lines) THEN Len(lines) ELSE L + 2
    IN  [k \in 1..(last - first + 1) |-> lines[first + k - 1]]

\* C13: the context of a finding on line L of an N-line blob is the lines
\* with 0-based indices max(0, L-1-2) .. min(N-1, L-1+2), newline-joined:
\* clipped at both ends of the blob and holding the finding's own line.
C13_ContextWindow ==
    hpc = "responded" =>
        \A i \in 1..Len(Contexts) :
            LET L == Contexts[i].line
                lines == Split(blob)
            IN  /\ L \in 1..Len(lines)
                /\ Split(Contexts[i].context) = WindowLines(lines, L)
                /\ \E k \in 1..Len(WindowLines(lines, L)) :
                      WindowLines(lines, L)[k] = lines[L]
\* A finding whose window is whole, one clipped at the start and one clipped
\* at the end of the same blob.
C13_Witness ==
    /\ hpc = "responded"
    /\ Len(Split(blob)) = 5
    /\ \E i, j, k \in 1..Len(Contexts) :
          Contexts[i].line = 1 /\ Contexts[j].line = 3 /\ Contexts[k].line = 5

\* The text satisfies a pattern of the whitelist.
Whitelisted(match) ==
    \E i \in 1..Len(whitelist) : RegExpExec(whitelist[i], ToText(match), 1).ok
Flagless == \A i \in 1..Len(whitelist) : ~whitelist[i].global
\* No finding of the secrets list satisfies a whitelist pattern; the first
\* match of a secret rule on a line is reported unless it satisfies one; the
\* first match of an insecure-API rule on a line is reported in any case.
WhitelistFilter ==
    /\ \A i \in 1..Len(report.secrets) : ~Whitelisted(report.secrets[i].match)
    /\ \A ln \in 1..Len(Split(blob)) :
        /\ \A k \in 1..Len(KEY_PATTERNS) :
              LET all == AllMatches(KEY_PATTERNS[k], Split(blob)[ln])
                  found == SecretMatchesOn(ln, KEY_PATTERNS[k].name)
              IN  (all # <<>> /\ ~Whitelisted(all[1])) => (found # <<>> /\ found[1] = all[1])
        /\ \A k \in 1..Len(INSECURE_API_PATTERNS) :
              LET all == AllMatches(INSECURE_API_PATTERNS[k], Split(blob)[ln])
                  found == ApiMatchesOn(ln, INSECURE_API_PATTERNS[k].name)
              IN  all # <<>> => (found # <<>> /\ found[1] = all[1])

\* C14 as stated: whatever the configured whitelist, a secret match that
\* satisfies a whitelist pattern is never in the secrets list, one that
\* satisfies none is not suppressed, and insecure-API findings are not
\* filtered.  A g-flagged whitelist pattern keeps its lastIndex between two
\* calls of test, so the second of two whitelisted keys is reported.
C14_AnyWhitelist == hpc = "responded" => WhitelistFilter
\* The same for the whitelists whose patterns carry no g flag: it holds.
C14_FlaglessWhitelist == (hpc = "responded" /\ Flagless) => WhitelistFilter
\* A whitelisted key is suppressed while the url around it is reported as an
\* insecure-API finding, and another secret of the blob is reported.
C14_Witness ==
    /\ hpc = "responded" /\ Flagless /\ whitelist # <<>>
    /\ \E ln \in 1..Len(Split(blob)) :
          LET all == AllMatches(KEY_PATTERNS[1], Split(blob)[ln])
          IN  all # <<>> /\ Whitelisted(all[1])
              /\ SecretMatchesOn(ln, KEY_PATTERNS[1].name) = <<>>
    /\ \E i \in 1..Len(report.apiIssues) : Whitelisted(report.apiIssues[i].match)
    /\ report.secrets # <<>>

\* C15: every insecure-API finding carries a severity, never empty: critical
\* for HTTP_ENDPOINT and BASIC_AUTH_IN_URL, high for URL_API_KEY and
\* DEFAULT_CREDS, medium for WILD_CORS, low for every other rule.
C15_SeverityTotal ==
    hpc = "responded" =>
        /\ \A i \in 1..Len(report.apiIssues) :
              LET f == report.apiIssues[i]
              IN  /\ f.severity \in {"critical", "high", "medium", "low"}
                  /\ f.severity = "critical" <=>
                        f.issueType \in {"HTTP_ENDPOINT", "BASIC_AUTH_IN_URL"}
                  /\ f.severity = "high" <=> f.issueType \in {"URL_API_KEY", "DEFAULT_CREDS"}
                  /\ f.severity = "medium" <=> f.issueType = "WILD_CORS"
        /\ hresp.success =>
              /\ Len(hresp.apiIssues) = Len(report.apiIssues)
              /\ \A i \in 1..Len(hresp.apiIssues) :
                    /\ hresp.apiIssues[i].issueType = report.apiIssues[i].issueType
                    /\ hresp.apiIssues[i].severity = report.apiIssues[i].severity
\* A response with a finding of every insecure-API rule of the table.
C15_Witness ==
    /\ hpc = "responded" /\ hresp.success
    /\ \A k \in 1..Len(INSECURE_API_PATTERNS) :
          \E i \in 1..Len(hresp.apiIssues) :
              hresp.apiIssues[i].issueType = INSECURE_API_PATTERNS[k].name

\* The unit handleRequest pushed for the i-th request of the page: requests
\* are observed in the order the page issues them.
UnitOf(i) == Cardinality({j \in 1..i : page.reqs[j].type = "script"})
ScriptRequests == {i \in 1..Len(page.reqs) : page.reqs[i].type = "script"}
\* The lines of the blob that are the text.
Occurrences(text) == Cardinality({k \in 1..Len(Split(blob)) : Split(blob)[k] = text})

\* C16: when the body of the response to a script request has been read
\* before the blob is assembled, the unit recorded for that request is loaded
\* with that body, also when several requests have the same url; the text is
\* in the blob once per request, and no unit whose response was read stays
\* pending.  The callback looks the unit up with find(s => s.url === url),
\* which yields the first unit of that url for every response to it.
C16_EachResponseMarksItsUnit ==
    hpc = "responded" =>
        \A i \in ScriptRequests : net[i] = "read" =>
            /\ external[UnitOf(i)].status = "loaded"
            /\ external[UnitOf(i)].content = page.reqs[i].body
            /\ Occurrences(page.reqs[i].body)
                  >= Cardinality({j \in ScriptRequests :
                        net[j] = "read" /\ page.reqs[j].body = page.reqs[i].body})

\* The callback of the i-th request's response takes its catch branch.
ReadFails(i) == net[i] = "reading" /\ net'[i] = "failed"
\* The failure marks unit u, and nothing else changes.
MarksOnly(u) ==
    /\ hpc' = hpc
    /\ external'[u].status = "error" /\ external'[u].error # ""
    /\ external'[u].content = external[u].content
    /\ \A v \in 1..Len(external) : v # u => external'[v] = external[v]
    /\ Len(external') = Len(external)

\* C17: a failed read of one response's body does not throw out of the
\* callback; the unit of that response is marked error with the message, every
\* other unit keeps its status and content, and the scan goes on.  With two
\* requests to one url the catch branch marks the first unit of the url, which
\* may be the loaded unit of the other request.
C17_Step == \A i \in ScriptRequests : ReadFails(i) => MarksOnly(UnitOf(i))
C17_ReadFailureIsLocal == [][C17_Step]_vars
\* The same for the unit the callback found by url: it holds.
C17_FoundStep == \A i \in ScriptRequests : ReadFails(i) => MarksOnly(bound[i])
C17_FoundUnitMarked == [][C17_FoundStep]_vars

\* C18: the callbacks are subscribed before the navigation starts, so every
\* request the page issues is observed; every request is continued exactly
\* once, unmodified; a script request's pending unit is in scripts.external
\* when the request is continued.
C18_ObservedAndContinuedOnce ==
    /\ hpc = "created" => (~observing /\ \A i \in 1..Len(net) : net[i] = "unsent")
    /\ hpc \in {"navigating", "settling", "collecting", "collected"} => observing
    /\ \A i \in 1..Len(net) :
          /\ net[i] = "unsent" => continued[i] = 0
          /\ net[i] # "unsent" =>
                /\ observing
                /\ continued[i] = 1
                /\ unitsAtContinue[i] = UnitOf(i)
                /\ Len(external) >= UnitOf(i)
                /\ i \in ScriptRequests => external[UnitOf(i)].url = page.reqs[i].url
    /\ Len(external) = Cardinality({i \in ScriptRequests : net[i] # "unsent"})
\* Every request of the page with two script requests and an image has been
\* continued.
C18_Witness ==
    /\ page = TwinPage
    /\ \A i \in 1..Len(net) : continued[i] = 1
    /\ Len(external) = 2

\* A step of the sweep: the table changes and no request arrives.
Sweeps == rateLimitMap' # rateLimitMap /\ pc' = pc
\* The sweep removes entries, and only those older than twice the window.
C19_SweepStep ==
    Sweeps => \A i \in IPs : rateLimitMap'[i] # rateLimitMap[i] =>
                  /\ rateLimitMap'[i] = NoEntry
                  /\ now - rateLimitMap[i] > 2 * RATE_LIMIT_WINDOW
\* The check and the write of a passing request are one step: the entry the
\* request wrote is in the table when the step ends.
C19_CheckThenWrite ==
    \A r \in Requests : (Arrives(r) /\ lastResp' # Resp(r, 429)) =>
        /\ rateLimitMap'[lastIp'] = now
        /\ \A i \in IPs : i # lastIp' => rateLimitMap'[i] = rateLimitMap[i]
\* The gate decides on the swept table as on the table no sweep has touched.
C19_SameDecision ==
    \A i \in IPs :
        (rateLimitMap[i] # NoEntry /\ now - rateLimitMap[i] < RATE_LIMIT_WINDOW)
            <=> (lastPass[i] # NoEntry /\ now - lastPass[i] < RATE_LIMIT_WINDOW)

\* C19: the sweep removes only entries older than twice the window, never
\* between a request's check and its write, and the gate decision of every
\* request is the one it would be without sweeps.
C19_SweepKeepsDecisions ==
    [](C19_SameDecision) /\ [][C19_SweepStep /\ C19_CheckThenWrite]_vars
\* The first address's entry has been swept, and a request from the other
\* address has then passed the gate.
C19_Witness ==
    /\ \E i \in IPs : rateLimitMap[i] = NoEntry /\ lastPass[i] # NoEntry
    /\ \E i \in IPs : rateLimitMap[i] = now /\ lastPass[i] = now /\ now > 2 * RATE_LIMIT_WINDOW

\* C20: sessions are exclusively owned.  No session is held by two scans in
\* flight, none is both in the free list and held, none is twice in the free
\* list, and the free list is non-empty only when nobody is queued.
C20_ExclusiveOwnership ==
    /\ \A r, q \in Requests :
          (r # q /\ Running(r) /\ Running(q)) =>
              (held[r] # NoBrowser /\ held[q] # NoBrowser /\ held[r] # held[q])
    /\ \A r \in Requests : held[r] # NoBrowser => (Running(r) /\ ~InFreeList(held[r]))
    /\ \A i, j \in 1..Len(instances) : i # j => instances[i] # instances[j]
    /\ \A i \in 1..Len(instances) : instances[i] \in 1..launched
    /\ instances # <<>> => pending = <<>>
\* One session is in the free list while another is held by a scan, the scan
\* having been handed its session by a release.
C20_Witness ==
    /\ instances # <<>>
    /\ handedTo # <<>>
    /\ \E r \in Requests : Running(r) /\ held[r] # NoBrowser /\ r = handedTo[Len(handedTo)]

\* An arriving request finds a recent entry of its address in the table.
C21_Limited(ip) ==
    rateLimitMap[ip] # NoEntry /\ now - rateLimitMap[ip] < RATE_LIMIT_WINDOW
\* The arrival of a request: rejected with 429 it leaves the table as it was;
\* passing the gate it sets its address's entry, and no other, to the arrival
\* time, a request without url included (answered 400 in the same step).
C21_ArrivalStep ==
    \A r \in Requests : Arrives(r) =>
        IF C21_Limited(lastIp')
        THEN /\ lastResp' = Resp(r, 429)
             /\ rateLimitMap' = rateLimitMap
        ELSE /\ lastResp' # Resp(r, 429)
             /\ rateLimitMap' = [rateLimitMap EXCEPT ![lastIp'] = now]
             /\ pc'[r] = "done" => lastResp' = Resp(r, 400)
\* Every later step of a handler, the ones that answer 500 or 200 included,
\* leaves the table as it was; only the sweep's deletions change it otherwise.
C21_LaterStep ==
    (\A r \in Requests : ~Arrives(r)) =>
        /\ pc' # pc => rateLimitMap' = rateLimitMap
        /\ \A i \in IPs : rateLimitMap'[i] \in {rateLimitMap[i], NoEntry}
\* C21: the rate-limit entry of an address is written exactly by the requests
\* that pass the gate: a 429 leaves the table unchanged, a passing request sets
\* the entry to its arrival time before validation and scanning, and no later
\* outcome (400, 500 or success) touches it.
C21_WrittenByPassingRequests == [][C21_ArrivalStep /\ C21_LaterStep]_vars
\* Request 1 passed at time 0 and failed (its session was launched and newPage
\* rejected, answered 500); request 2 came later from the same address, inside
\* the window the failed request started, and was answered 429; the entry
\* still holds request 1's arrival time.
C21_Witness ==
    /\ lastResp = Resp(2, 429)
    /\ pc[1] = "done"
    /\ launched = 1 /\ instances = <<>> /\ \A r \in Requests : held[r] = NoBrowser
    /\ now > 0
    /\ rateLimitMap[lastIp] = 0
    /\ \A i \in IPs : i # lastIp => rateLimitMap[i] = NoEntry

=============================================================================
